---- MODULE Spec2Model ----
(***************************************************************************)
(* Model of src/nixpacks/builder/docker/incremental_cache.rs:              *)
(*   IncrementalCacheDirs::create, IncrementalCache::create_image,         *)
(*   IncrementalCache::is_image_exists and the two command generators      *)
(*   get_copy_to_image_command / get_copy_from_image_command.              *)
(*                                                                         *)
(* A Rust String is modelled as a sequence of one-character strings, so    *)
(* that replace/split/join/format act on characters as the code does.      *)
(***************************************************************************)
EXTENDS Naturals, Sequences, FiniteSets, TLC

VARIABLES
    \* --- the cache directories on disk and the last create() call
    fs, ret, failedOps, pre, origin, consecutive,
    \* --- create_image / is_image_exists and the docker daemon
    pc, tag, listing, rest, attempts, outstanding, registry, imgRes, failure,
    preReg, preUploads, insp,
    \* --- the command generators
    cacheDirs, serverCfg, imageRef, toCmds, fromCmds,
    \* --- a shell running the generated copy-from lines
    shLines, shPos, shDirs, shArchive, shRmAfter, errexit

dirVars   == <<fs, ret, failedOps, pre, origin, consecutive>>
imageVars == <<pc, tag, listing, rest, attempts, outstanding, registry, imgRes,
               failure, preReg, preUploads, insp>>
fragVars  == <<cacheDirs, serverCfg, imageRef, toCmds, fromCmds>>
shellVars == <<shLines, shPos, shDirs, shArchive, shRmAfter, errexit>>
vars      == <<dirVars, imageVars, fragVars, shellVars>>

(***************************************************************************)
(* Bounds                                                                  *)
(***************************************************************************)
NumFiles       == 3   \* files that may sit in uploads/ or image/
MaxConsecutive == 2   \* consecutive create() calls that are counted
MaxLen         == 4   \* length of the exhaustively enumerated paths
MaxDirs        == 2   \* length of the lists of sample cache directories

(***************************************************************************)
(* Strings                                                                 *)
(***************************************************************************)
SeqsUpTo(S, n) == UNION {[1..k -> S] : k \in 0..n}

RECURSIVE Replace(_, _, _)
\* str::replace(from: char, to: &str)
Replace(s, from, to) ==
    IF s = <<>> THEN <<>>
    ELSE (IF Head(s) = from THEN to ELSE <<Head(s)>>) \o Replace(Tail(s), from, to)

RECURSIVE SplitAcc(_, _, _)
SplitAcc(s, sep, cur) ==
    IF s = <<>> THEN <<cur>>
    ELSE IF Head(s) = sep THEN <<cur>> \o SplitAcc(Tail(s), sep, <<>>)
    ELSE SplitAcc(Tail(s), sep, Append(cur, Head(s)))

\* str::split(sep: char): the pieces between separators, empty ones included
Split(s, sep) == SplitAcc(s, sep, <<>>)

FilterNothing(segs) == segs

\* Iterator::filter(|c| !c.is_empty())
FilterNonEmpty(segs) == SelectSeq(segs, LAMBDA c : c # <<>>)

\* Iterator::map(|c| format!("{c}?"))
MarkOptional(segs) == [i \in 1..Len(segs) |-> segs[i] \o <<"?">>]

RECURSIVE Join(_, _)
\* [String]::join(sep)
Join(segs, sep) ==
    IF segs = <<>> THEN <<>>
    ELSE IF Len(segs) = 1 THEN segs[1]
    ELSE segs[1] \o sep \o Join(Tail(segs), sep)

RECURSIVE Flatten(_)
\* flat_map(..).collect(): the per-directory vectors, concatenated in order
Flatten(ss) == IF ss = <<>> THEN <<>> ELSE Head(ss) \o Flatten(Tail(ss))

StartsWith(s, p) == Len(s) >= Len(p) /\ SubSeq(s, 1, Len(p)) = p
EndsWith(s, p)   == Len(s) >= Len(p) /\ SubSeq(s, Len(s) - Len(p) + 1, Len(s)) = p
Contains(s, c)   == \E i \in 1..Len(s) : s[i] = c

(***************************************************************************)
(* Option<T>                                                               *)
(***************************************************************************)
None       == [some |-> FALSE, val |-> <<>>]
Some(v)    == [some |-> TRUE, val |-> v]
\* Option::unwrap_or_default on Option<Vec<String>>
UnwrapOrDefault(o) == IF o.some THEN o.val ELSE <<>>

(***************************************************************************)
(* The command generators                                                  *)
(***************************************************************************)
HomeWrong == <<"r","o","o","t">>

\* the replacement of '~' (lines 134 and 163)
Home == <<"/","r","o","o","t">>

\* dir.replace('~', "/root")
SanitizeDir(dir) == Replace(dir, "~", Home)

\* target_cache_dir.split('/').filter(..).map(..).collect().join("/")
OptionalSegments(target) ==
    Join(MarkOptional(FilterNonEmpty(Split(target, "/"))), <<"/">>)

\* format!("COPY --from={image} {optional} {target}")
CopyLine(dir, image) ==
    LET target_cache_dir == SanitizeDir(dir)
        target_cache_dir_optional == OptionalSegments(target_cache_dir)
    IN  <<"C","O","P","Y"," ","-","-","f","r","o","m","=">> \o image \o <<" ">> \o target_cache_dir_optional
            \o <<" ">> \o target_cache_dir

get_copy_to_image_command(cache_directories, incremental_cache_image) ==
    LET dirs == UnwrapOrDefault(cache_directories)
    IN  IF dirs = <<>> THEN <<>>
        ELSE Flatten([i \in 1..Len(dirs) |->
                        <<CopyLine(dirs[i], incremental_cache_image)>>])

\* format!("{}.tar", sanitized_dir.replace('/', "%2f"))
CompressedFileName(sanitized_dir) ==
    Replace(sanitized_dir, "/", <<"%","2","f">>) \o <<".","t","a","r">>

TarLine(sanitized_dir) ==
    <<"i","f"," ","["," ","-","d"," ","\"">> \o sanitized_dir \o <<"\""," ","]",";"," ","t","h","e","n"," ","t","a","r"," ","-","c","f"," ">>
        \o CompressedFileName(sanitized_dir) \o <<" ">> \o sanitized_dir \o <<";"," ","f","i",";">>

CurlLine(sanitized_dir, cfg) ==
    <<"i","f"," ","["," ","-","d"," ","\"">> \o sanitized_dir \o <<"\""," ","]",";"," ","t","h","e","n"," ","c","u","r","l"," ","-","v"," ","-","T"," ">>
        \o CompressedFileName(sanitized_dir) \o <<" ">> \o cfg.upload_url
        \o <<" ","-","-","h","e","a","d","e","r"," ","\"","t",":">> \o cfg.access_token
        \o <<"\""," ","-","-","r","e","t","r","y"," ","3"," ","-","-","r","e","t","r","y","-","a","l","l","-","e","r","r","o","r","s",";"," ","f","i",";">>

RmLine(sanitized_dir) ==
    <<"i","f"," ","["," ","-","d"," ","\"">> \o sanitized_dir \o <<"\""," ","]",";"," ","t","h","e","n"," ","r","m"," ","-","r","f"," ">> \o sanitized_dir
        \o <<";"," ","f","i">>

DirLinesRmFirst(dir, cfg) ==
    LET sanitized_dir == SanitizeDir(dir)
    IN  <<RmLine(sanitized_dir), TarLine(sanitized_dir), CurlLine(sanitized_dir, cfg)>>

\* the vec![..] of three lines built for one directory
DirLines(dir, cfg) ==
    LET sanitized_dir == SanitizeDir(dir)
    IN  <<TarLine(sanitized_dir), CurlLine(sanitized_dir, cfg), RmLine(sanitized_dir)>>

get_copy_from_image_command(cache_directories, file_server_config) ==
    LET container_dirs == UnwrapOrDefault(cache_directories)
    IN  IF container_dirs = <<>> \/ ~file_server_config.some THEN <<>>
        ELSE LET server_config == file_server_config.val
             IN  Flatten([i \in 1..Len(container_dirs) |->
                            DirLines(container_dirs[i], server_config)])

(***************************************************************************)
(* Inputs of the generators                                                *)
(***************************************************************************)
Alphabet == {"~", "/", "a"}

\* every path of at most MaxLen characters over Alphabet
ShortPaths == SeqsUpTo(Alphabet, MaxLen)

TestDir   == <<".","/","p","a","r","e","n","t","_","d","i","r","/","c","h","i","l","d","_","d","i","r">>
TestImage == <<"d","o","c","k","e","r",".","i","o","/","l","i","b","r","a","r","y","/","t","e","s","t","-","i","m","a","g","e">>
TestCfg   == [upload_url |-> <<"h","t","t","p",":","/","/","t","e","s","t",".","c","o","m","/","u","p","l","o","a","d">>,
              access_token |-> <<"t","e","s","t","_","a","c","c","e","s","s","_","t","o","k","e","n">>]
OtherCfg  == [upload_url |-> <<"u">>, access_token |-> <<"k">>]

SamplePaths == {TestDir, <<"~","/",".","c","a","c","h","e">>, <<"/","a","/","/","b","/">>, <<"a","~">>}

DirLists ==
    {<<p>> : p \in ShortPaths} \cup SeqsUpTo(SamplePaths, MaxDirs)

NotCalled == [called |-> FALSE, out |-> <<>>]
Called(v) == [called |-> TRUE, out |-> v]

InitFrag ==
    /\ cacheDirs \in {None} \cup {Some(d) : d \in DirLists}
    /\ serverCfg \in {None, Some(TestCfg), Some(OtherCfg)}
    /\ imageRef \in {TestImage, <<"i","m","g">>}
    /\ toCmds = NotCalled
    /\ fromCmds = NotCalled

IdleFrag ==
    /\ cacheDirs = None
    /\ serverCfg = None
    /\ imageRef = TestImage
    /\ toCmds = NotCalled
    /\ fromCmds = NotCalled

CopyToImage ==
    /\ ~toCmds.called
    /\ toCmds' = Called(get_copy_to_image_command(cacheDirs, imageRef))
    /\ UNCHANGED <<cacheDirs, serverCfg, imageRef, fromCmds>>

CopyFromImage ==
    /\ ~fromCmds.called
    /\ fromCmds' = Called(get_copy_from_image_command(cacheDirs, serverCfg))
    /\ UNCHANGED <<cacheDirs, serverCfg, imageRef, toCmds>>

(***************************************************************************)
(* The cache root on disk: <out_dir>/incremental-cache with its two        *)
(* subdirectories (IncrementalCacheDirs::new, lines 28-38: both paths are   *)
(* joined onto the cache root).                                            *)
(***************************************************************************)
Files == 1..NumFiles

FsStates ==
    {s \in [root : BOOLEAN, image : BOOLEAN, uploads : BOOLEAN,
            imageFiles : SUBSET Files, uploadsFiles : SUBSET Files] :
        /\ s.image => s.root
        /\ s.uploads => s.root
        /\ s.imageFiles # {} => s.image
        /\ s.uploadsFiles # {} => s.uploads}

Absent == [root |-> FALSE, image |-> FALSE, uploads |-> FALSE,
           imageFiles |-> {}, uploadsFiles |-> {}]

\* fs::metadata(path).is_ok(): the stat succeeds exactly when the path
\* resolves to an existing entry
Metadata(s, p) ==
    CASE p = "root"    -> s.root
      [] p = "image"   -> s.image
      [] p = "uploads" -> s.uploads

RemoveDirAllKeepsUploads(s, p) ==
    CASE p = "root"    -> [s EXCEPT !.image = FALSE, !.imageFiles = {}]
      [] p = "image"   -> [s EXCEPT !.image = FALSE, !.imageFiles = {}]
      [] p = "uploads" -> s

\* fs::remove_dir_all(path) that returned Ok: the whole subtree is gone
RemoveDirAll(s, p) ==
    CASE p = "root"    -> Absent
      [] p = "image"   -> [s EXCEPT !.image = FALSE, !.imageFiles = {}]
      [] p = "uploads" -> [s EXCEPT !.uploads = FALSE, !.uploadsFiles = {}]

\* fs::remove_dir_all(path) that returned Err: nothing was removed
\* ("untouched"), or the files below were and the directories were not
\* ("partial")
RemoveDirAllFailed(s, p, how) ==
    IF how = "untouched" THEN s
    ELSE CASE p = "root"    -> [s EXCEPT !.imageFiles = {}, !.uploadsFiles = {}]
           [] p = "image"   -> [s EXCEPT !.imageFiles = {}]
           [] p = "uploads" -> [s EXCEPT !.uploadsFiles = {}]

\* fs::create_dir_all(path) that returned Ok: the directory and its parents
\* exist; what an existing directory holds is kept
CreateDirAll(s, p) ==
    CASE p = "image"   -> [s EXCEPT !.root = TRUE, !.image = TRUE]
      [] p = "uploads" -> [s EXCEPT !.root = TRUE, !.uploads = TRUE]

\* fs::create_dir_all(path) that returned Err: nothing was made
\* ("untouched"), or the parent was and the directory was not ("partial")
CreateDirAllFailed(s, p, how) ==
    IF how = "untouched" THEN s ELSE [s EXCEPT !.root = TRUE]

\* what one filesystem call of create() does: "ok", or how it fails
Outcomes == {"ok", "untouched", "partial"}

Running(s) == [fs |-> s, res |-> "run", failed |-> {}]

RemoveIfExistsIgnoreErr(st, p, how) ==
    IF st.res = "err" THEN st
    ELSE IF ~Metadata(st.fs, p)
         THEN [st EXCEPT !.failed = @ \cup {"stat"}]
    ELSE IF how = "ok"
         THEN [st EXCEPT !.fs = RemoveDirAll(st.fs, p)]
    ELSE [st EXCEPT !.fs = RemoveDirAllFailed(st.fs, p, how),
                    !.failed = @ \cup {"remove"}]

\* if fs::metadata(p).is_ok() { fs::remove_dir_all(p)?; }
RemoveIfExists(st, p, how) ==
    IF st.res = "err" THEN st
    ELSE IF ~Metadata(st.fs, p)
         THEN [st EXCEPT !.failed = @ \cup {"stat"}]
    ELSE IF how = "ok"
         THEN [st EXCEPT !.fs = RemoveDirAll(st.fs, p)]
    ELSE [st EXCEPT !.fs = RemoveDirAllFailed(st.fs, p, how),
                    !.res = "err", !.failed = @ \cup {"remove"}]

\* fs::create_dir_all(p).context(..)?;
CreateOrFail(st, p, how) ==
    IF st.res = "err" THEN st
    ELSE IF how = "ok"
         THEN [st EXCEPT !.fs = CreateDirAll(st.fs, p)]
    ELSE [st EXCEPT !.fs = CreateDirAllFailed(st.fs, p, how),
                    !.res = "err", !.failed = @ \cup {"create"}]

\* IncrementalCacheDirs::create; how[k] is the outcome of the k-th
\* filesystem call if the code reaches it
create(s, how) ==
    LET s1 == RemoveIfExists(Running(s), "root", how[1])
        s2 == RemoveIfExists(s1, "image", how[2])
        s3 == RemoveIfExists(s2, "uploads", how[3])
        s4 == CreateOrFail(s3, "image", how[4])
        s5 == CreateOrFail(s4, "uploads", how[5])
    IN  [s5 EXCEPT !.res = IF s5.res = "err" THEN "err" ELSE "ok"]

InitDirs ==
    /\ fs \in FsStates
    /\ ret = "none"
    /\ failedOps = {}
    /\ pre = fs
    /\ origin = fs
    /\ consecutive = 0

IdleDirs ==
    /\ ret = "none"
    /\ failedOps = {}
    /\ pre = fs
    /\ origin = fs
    /\ consecutive = 0

\* one call of create()
Create ==
    \E how \in [1..5 -> Outcomes] :
        LET r == create(fs, how)
        IN  /\ fs' = r.fs
            /\ ret' = r.res
            /\ failedOps' = r.failed
            /\ pre' = fs
            /\ origin' = IF consecutive = 0 THEN fs ELSE origin
            /\ consecutive' =
                 IF r.res = "ok"
                 THEN (IF consecutive < MaxConsecutive
                       THEN consecutive + 1 ELSE consecutive)
                 ELSE 0

\* the build stores an archive in uploads/ (through the file server)
WriteUpload ==
    /\ fs.uploads
    /\ \E f \in Files :
        /\ f \notin fs.uploadsFiles
        /\ fs' = [fs EXCEPT !.uploadsFiles = @ \cup {f}]
    /\ ret' = "none"
    /\ failedOps' = {}
    /\ pre' = fs'
    /\ origin' = fs'
    /\ consecutive' = 0

\* something is left in image/ (the working area of image construction)
WriteImage ==
    /\ fs.image
    /\ \E f \in Files :
        /\ f \notin fs.imageFiles
        /\ fs' = [fs EXCEPT !.imageFiles = @ \cup {f}]
    /\ ret' = "none"
    /\ failedOps' = {}
    /\ pre' = fs'
    /\ origin' = fs'
    /\ consecutive' = 0

\* a create() call that succeeds, its result taken by the pipeline before
\* the next build
Reset ==
    /\ fs' = create(fs, [k \in 1..5 |-> "ok"]).fs
    /\ fs' # fs
    /\ pre' = fs'
    /\ origin' = fs'
    /\ UNCHANGED <<ret, failedOps, consecutive>>

(***************************************************************************)
(* create_image and the docker daemon it drives                            *)
(***************************************************************************)
Tags == {"cache:a", "cache:b"}

OtherTag(t) == CHOOSE u \in Tags : u # t

\* every order in which fs::read_dir may yield the entries of a directory
Orders(S) ==
    {o \in [1..Cardinality(S) -> S] :
        \A i, j \in 1..Cardinality(S) : i # j => o[i] # o[j]}

ImportArgsOtherTag(f, t) == [file |-> f, tag |-> OtherTag(t)]

\* docker import <path of f> <tag>
ImportArgs(f, t) == [file |-> f, tag |-> t]

\* what a completed `docker import FILE TAG` leaves in the daemon: a new
\* image made of FILE alone, and TAG moved to it
DockerImport(reg, args) == [reg EXCEPT ![args.tag] = {args.file}]

BailsNever(outcome) == FALSE

\* if !result.success() { bail!(..) }
Bails(outcome) == outcome # "exit_ok"

AdvanceSkipping(it) == IF Len(it) >= 2 THEN Tail(Tail(it)) ELSE Tail(it)

\* the read_dir iterator after `for f in files` has taken one entry
Advance(it) == Tail(it)

AttemptFiles == [i \in 1..Len(attempts) |-> attempts[i].args.file]

Range(s) == {s[i] : i \in 1..Len(s)}

NoInsp == [called |-> FALSE, tag |-> "cache:a", launched |-> FALSE,
           waited |-> FALSE, status |-> 0, res |-> "none"]

InitImage ==
    /\ pc = "idle"
    /\ tag = "cache:a"
    /\ listing = <<>>
    /\ rest = <<>>
    /\ attempts = <<>>
    /\ outstanding = 0
    /\ registry = [t \in Tags |-> {}]
    /\ imgRes = "none"
    /\ failure = "none"
    /\ preReg = [t \in Tags |-> {}]
    /\ preUploads = {}
    /\ insp = NoInsp

Fail(why) ==
    /\ pc' = "done"
    /\ imgRes' = "err"
    /\ failure' = why

\* create_image is entered: fs::read_dir(uploads_dir)?
CreateImageCall ==
    /\ pc = "idle"
    /\ \E t \in Tags, readable \in BOOLEAN :
        /\ tag' = t
        /\ attempts' = <<>>
        /\ preReg' = registry
        /\ preUploads' = fs.uploadsFiles
        /\ IF fs.uploads /\ readable
           THEN /\ \E o \in Orders(fs.uploadsFiles) :
                     listing' = o /\ rest' = o
                /\ pc' = "loop"
                /\ imgRes' = "none"
                /\ failure' = "none"
           ELSE /\ listing' = <<>>
                /\ rest' = <<>>
                /\ Fail("read_dir")
    /\ insp' = NoInsp
    /\ UNCHANGED <<outstanding, registry>>

\* one turn of `for f in files`: the entry is read (f?) and the import
\* process is spawned (spawn()?)
Spawn ==
    /\ pc = "loop"
    /\ rest # <<>>
    /\ \E entryOk \in BOOLEAN, launched \in BOOLEAN :
        IF ~entryOk
        THEN /\ Fail("entry")
             /\ UNCHANGED <<rest, attempts, outstanding>>
        ELSE IF ~launched
        THEN /\ Fail("spawn")
             /\ rest' = Advance(rest)
             /\ attempts' = Append(attempts,
                    [args |-> ImportArgs(Head(rest), tag), outcome |-> "launch_failed"])
             /\ UNCHANGED outstanding
        ELSE /\ pc' = "wait"
             /\ rest' = Advance(rest)
             /\ attempts' = Append(attempts,
                    [args |-> ImportArgs(Head(rest), tag), outcome |-> "running"])
             /\ outstanding' = outstanding + 1
             /\ UNCHANGED <<imgRes, failure>>
    /\ UNCHANGED <<tag, listing, registry, preReg, preUploads, insp>>

\* the blocking wait() on the import process, then the status test
Wait ==
    /\ pc = "wait"
    /\ \E outcome \in {"exit_ok", "exit_fail", "wait_failed"} :
        LET n == Len(attempts) IN
        /\ attempts' = [attempts EXCEPT ![n].outcome = outcome]
        /\ outstanding' = outstanding - 1
        /\ registry' = IF outcome = "exit_ok"
                       THEN DockerImport(registry, attempts[n].args)
                       ELSE registry
        /\ IF outcome = "wait_failed" THEN Fail("wait")
           ELSE IF Bails(outcome) THEN Fail("status")
           ELSE pc' = "loop" /\ UNCHANGED <<imgRes, failure>>
    /\ UNCHANGED <<tag, listing, rest, preReg, preUploads, insp>>

\* the iterator is exhausted: info!(..); Ok(())
Finish ==
    /\ pc = "loop"
    /\ rest = <<>>
    /\ pc' = "done"
    /\ imgRes' = "ok"
    /\ UNCHANGED <<tag, listing, rest, attempts, outstanding, registry,
                   failure, preReg, preUploads, insp>>

\* the caller has the result; the next call may start
Return ==
    /\ pc = "done"
    /\ pc' = "idle"
    /\ imgRes' = "none"
    /\ failure' = "none"
    /\ listing' = <<>>
    /\ rest' = <<>>
    /\ attempts' = <<>>
    /\ tag' = "cache:a"
    /\ preReg' = [t \in Tags |-> {}]
    /\ preUploads' = {}
    /\ UNCHANGED <<outstanding, registry, insp>>

(***************************************************************************)
(* is_image_exists                                                         *)
(***************************************************************************)
\* exit statuses of `docker manifest inspect`: 0, a non-zero code, a signal
Statuses == {0, 1, 125, 137}

\* ExitStatus::success
Success(status) == status = 0

is_image_exists_folding(launched, waited, status) ==
    IF ~launched THEN "Ok(false)"
    ELSE IF ~waited THEN "Err"
    ELSE IF Success(status) THEN "Ok(true)" ELSE "Ok(false)"

\* spawn()?.wait().context(..)?; Ok(result.success())
is_image_exists(launched, waited, status) ==
    IF ~launched THEN "Err"
    ELSE IF ~waited THEN "Err"
    ELSE IF Success(status) THEN "Ok(true)" ELSE "Ok(false)"

IsImageExists ==
    /\ pc = "idle"
    /\ \E t \in Tags, launched \in BOOLEAN, waited \in BOOLEAN, status \in Statuses :
        /\ waited => launched
        /\ insp' = [called |-> TRUE, tag |-> t, launched |-> launched,
                    waited |-> waited, status |-> status,
                    res |-> is_image_exists(launched, waited, status)]
    /\ UNCHANGED <<pc, tag, listing, rest, attempts, outstanding, registry,
                   imgRes, failure, preReg, preUploads>>

(***************************************************************************)
(* A shell in the build container running the lines of                     *)
(* get_copy_from_image_command in order.  Each line reads                  *)
(*     if [ -d "DIR" ]; then COMMAND; fi                                   *)
(* and is run whatever the line before it returned, unless the shell       *)
(* exits on a failing command (errexit).                                   *)
(***************************************************************************)
GuardOpen  == <<"i","f"," ","["," ","-","d"," ","\"">>
GuardClose == <<"\""," ","]",";"," ","t","h","e","n"," ">>

RECURSIVE TakeUntil(_, _)
TakeUntil(s, c) ==
    IF s = <<>> \/ Head(s) = c THEN <<>> ELSE <<Head(s)>> \o TakeUntil(Tail(s), c)

RECURSIVE LastToken(_)
\* the text after the last blank of s
LastToken(s) ==
    IF s = <<>> THEN <<>>
    ELSE IF s[Len(s)] = " " THEN <<>>
    ELSE Append(LastToken(SubSeq(s, 1, Len(s) - 1)), s[Len(s)])

\* the DIR of the line's test
GuardPath(line) == TakeUntil(SubSeq(line, Len(GuardOpen) + 1, Len(line)), "\"")

\* the line's COMMAND
Command(line) ==
    LET from == Len(GuardOpen) + Len(GuardPath(line)) + Len(GuardClose) + 1
        body == SubSeq(line, from, Len(line))
    IN  IF EndsWith(body, <<";"," ","f","i",";">>) THEN SubSeq(body, 1, Len(body) - 5)
        ELSE SubSeq(body, 1, Len(body) - 4)

Verb(line) ==
    CASE StartsWith(Command(line), <<"t","a","r"," ","-","c","f"," ">>)    -> "tar"
      [] StartsWith(Command(line), <<"c","u","r","l"," ","-","v"," ","-","T"," ">>) -> "curl"
      [] StartsWith(Command(line), <<"r","m"," ","-","r","f"," ">>)     -> "rm"
      [] OTHER -> "other"

\* the directory a tar or rm command works on: its last argument
Operand(line) == LastToken(Command(line))

ShPaths == {SanitizeDir(p) : p \in SamplePaths}

InitShell ==
    /\ cacheDirs \in {Some(d) : d \in SeqsUpTo(SamplePaths, MaxDirs)}
    /\ serverCfg = Some(TestCfg)
    /\ imageRef = TestImage
    /\ toCmds = NotCalled
    /\ fromCmds = Called(get_copy_from_image_command(cacheDirs, serverCfg))
    /\ shLines = fromCmds.out
    /\ shPos = 1
    /\ shDirs \in SUBSET {SanitizeDir(p) : p \in Range(cacheDirs.val)}
    /\ shArchive = [p \in ShPaths |-> "none"]
    /\ shRmAfter = {}
    /\ errexit \in BOOLEAN

IdleShell ==
    /\ shLines = <<>>
    /\ shPos = 1
    /\ shDirs = {}
    /\ shArchive = [p \in ShPaths |-> "none"]
    /\ shRmAfter = {}
    /\ errexit = FALSE

AtLine(verb, present) ==
    /\ shPos <= Len(shLines)
    /\ Verb(shLines[shPos]) = verb
    /\ (GuardPath(shLines[shPos]) \in shDirs) = present

\* the shell goes on to the next line, or exits on a failed command
Proceed(ok) ==
    shPos' = IF ~ok /\ errexit THEN Len(shLines) + 1 ELSE shPos + 1

\* the test fails: the line does nothing
ShSkip ==
    /\ \E v \in {"tar", "curl", "rm"} : AtLine(v, FALSE)
    /\ Proceed(TRUE)
    /\ UNCHANGED <<shLines, shDirs, shArchive, shRmAfter, errexit>>

ShTar ==
    /\ AtLine("tar", TRUE)
    /\ \E ok \in BOOLEAN :
        /\ shArchive' = [shArchive EXCEPT ![Operand(shLines[shPos])] =
                            IF ok THEN "ok" ELSE "failed"]
        /\ Proceed(ok)
    /\ UNCHANGED <<shLines, shDirs, shRmAfter, errexit>>

ShCurl ==
    /\ AtLine("curl", TRUE)
    /\ \E ok \in BOOLEAN : Proceed(ok)
    /\ UNCHANGED <<shLines, shDirs, shArchive, shRmAfter, errexit>>

ShRm ==
    /\ AtLine("rm", TRUE)
    /\ LET d == Operand(shLines[shPos]) IN
        /\ shDirs' = shDirs \ {d}
        /\ shRmAfter' = shRmAfter \cup {<<d, shArchive[d]>>}
    /\ Proceed(TRUE)
    /\ UNCHANGED <<shLines, shArchive, errexit>>

(***************************************************************************)
(* Specifications                                                          *)
(***************************************************************************)
Fresh == [root |-> TRUE, image |-> TRUE, uploads |-> TRUE,
          imageFiles |-> {}, uploadsFiles |-> {}]

\* create() on any state of the cache root
Init == InitDirs /\ InitImage /\ IdleFrag /\ IdleShell

Next ==
    \/ Create /\ UNCHANGED <<imageVars, fragVars, shellVars>>
    \/ WriteUpload /\ UNCHANGED <<imageVars, fragVars, shellVars>>
    \/ WriteImage /\ UNCHANGED <<imageVars, fragVars, shellVars>>

Spec == Init /\ [][Next]_vars

\* create_image and is_image_exists; between calls the pipeline resets the
\* cache root and the build fills uploads/
InitImageSpec ==
    /\ fs \in {Absent, Fresh}
    /\ IdleDirs /\ InitImage /\ IdleFrag /\ IdleShell

NextImage ==
    \/ CreateImageCall /\ UNCHANGED <<dirVars, fragVars, shellVars>>
    \/ Spawn /\ UNCHANGED <<dirVars, fragVars, shellVars>>
    \/ Wait /\ UNCHANGED <<dirVars, fragVars, shellVars>>
    \/ Finish /\ UNCHANGED <<dirVars, fragVars, shellVars>>
    \/ Return /\ UNCHANGED <<dirVars, fragVars, shellVars>>
    \/ IsImageExists /\ UNCHANGED <<dirVars, fragVars, shellVars>>
    \/ pc = "idle" /\ WriteUpload /\ UNCHANGED <<imageVars, fragVars, shellVars>>
    \/ pc = "idle" /\ Reset /\ UNCHANGED <<imageVars, fragVars, shellVars>>

SpecImage == InitImageSpec /\ [][NextImage]_vars

\* the two generators on bounded inputs
InitFragSpec ==
    /\ fs = Absent
    /\ IdleDirs /\ InitImage /\ InitFrag /\ IdleShell

NextFrag ==
    \/ CopyToImage /\ UNCHANGED <<dirVars, imageVars, shellVars>>
    \/ CopyFromImage /\ UNCHANGED <<dirVars, imageVars, shellVars>>

SpecFrag == InitFragSpec /\ [][NextFrag]_vars

\* the generated copy-from lines, run in order
InitShellSpec ==
    /\ fs = Absent
    /\ IdleDirs /\ InitImage /\ InitShell

NextShell ==
    \/ ShSkip /\ UNCHANGED <<dirVars, imageVars, fragVars>>
    \/ ShTar /\ UNCHANGED <<dirVars, imageVars, fragVars>>
    \/ ShCurl /\ UNCHANGED <<dirVars, imageVars, fragVars>>
    \/ ShRm /\ UNCHANGED <<dirVars, imageVars, fragVars>>

SpecShell == InitShellSpec /\ [][NextShell]_vars

(***************************************************************************)
(* The unit tests of the source file, on the model                         *)
(***************************************************************************)
test_get_copy_from_image_command ==
    LET cmds == get_copy_from_image_command(Some(<<TestDir>>), Some(TestCfg))
    IN  /\ Len(cmds) = 3
        /\ cmds[1] = <<"i","f"," ","["," ","-","d"," ","\"",".","/","p","a","r","e","n","t","_","d","i","r","/","c","h","i","l","d","_","d","i","r","\""," ","]",";"," ","t","h","e","n"," ","t","a","r"," ","-","c","f"," ",".","%","2","f","p","a","r","e","n","t","_","d","i","r","%","2","f","c","h","i","l","d","_","d","i","r",".","t","a","r"," ",".","/","p","a","r","e","n","t","_","d","i","r","/","c","h","i","l","d","_","d","i","r",";"," ","f","i",";">>
        /\ cmds[2] = <<"i","f"," ","["," ","-","d"," ","\"",".","/","p","a","r","e","n","t","_","d","i","r","/","c","h","i","l","d","_","d","i","r","\""," ","]",";"," ","t","h","e","n"," ","c","u","r","l"," ","-","v"," ","-","T"," ",".","%","2","f","p","a","r","e","n","t","_","d","i","r","%","2","f","c","h","i","l","d","_","d","i","r",".","t","a","r"," ","h","t","t","p",":","/","/","t","e","s","t",".","c","o","m","/","u","p","l","o","a","d"," ","-","-","h","e","a","d","e","r"," ","\"","t",":","t","e","s","t","_","a","c","c","e","s","s","_","t","o","k","e","n","\""," ","-","-","r","e","t","r","y"," ","3"," ","-","-","r","e","t","r","y","-","a","l","l","-","e","r","r","o","r","s",";"," ","f","i",";">>
        /\ cmds[3] = <<"i","f"," ","["," ","-","d"," ","\"",".","/","p","a","r","e","n","t","_","d","i","r","/","c","h","i","l","d","_","d","i","r","\""," ","]",";"," ","t","h","e","n"," ","r","m"," ","-","r","f"," ",".","/","p","a","r","e","n","t","_","d","i","r","/","c","h","i","l","d","_","d","i","r",";"," ","f","i">>

test_get_copy_to_image_command ==
    LET cmds == get_copy_to_image_command(Some(<<TestDir>>), TestImage)
    IN  /\ Len(cmds) = 1
        /\ cmds[1] = <<"C","O","P","Y"," ","-","-","f","r","o","m","=","d","o","c","k","e","r",".","i","o","/","l","i","b","r","a","r","y","/","t","e","s","t","-","i","m","a","g","e"," ",".","?","/","p","a","r","e","n","t","_","d","i","r","?","/","c","h","i","l","d","_","d","i","r","?"," ",".","/","p","a","r","e","n","t","_","d","i","r","/","c","h","i","l","d","_","d","i","r">>

(***************************************************************************)
(* Properties                                                              *)
(***************************************************************************)

C2_AnyFailureIsFatal ==
    (ret # "none" /\ failedOps # {}) => ret = "err"

\* C2 amended: create() returns an error exactly when one of its recursive
\* removals or directory creations failed; a stat that fails is taken to
\* mean that the path is absent and is not an error.
C2_RemoveOrCreateFailureIsFatal ==
    ret # "none" =>
        (ret = "err" <=> failedOps \cap {"remove", "create"} # {})

\* the removal of the cache root failed, and create() returned an error
C2_Witness ==
    /\ ret = "err"
    /\ "remove" \in failedOps

\* C3: create_image is fail-fast: an import that fails to launch or ends
\* with a failure status is the last thing create_image does before it
\* returns an error; the files before it were imported once each, in the
\* order of the enumeration, none after it is, and what the completed
\* imports did to the tag stays.
C3_FailFast ==
    LET n == Len(attempts) IN
    /\ \A i \in 1..n :
         attempts[i].outcome \in {"launch_failed", "exit_fail"} =>
             /\ i = n
             /\ pc = "done" /\ imgRes = "err"
    /\ (pc = "done" /\ failure \in {"spawn", "status"}) =>
         /\ imgRes = "err"
         /\ n >= 1
         /\ attempts[n].outcome \in {"launch_failed", "exit_fail"}
         /\ \A i \in 1..(n - 1) : attempts[i].outcome = "exit_ok"
         /\ AttemptFiles = SubSeq(listing, 1, n)
         /\ registry[tag] = IF n > 1 THEN {attempts[n - 1].args.file}
                            ELSE preReg[tag]

\* an import failed after another had completed and with a file still
\* to come
C3_Witness ==
    /\ pc = "done" /\ failure = "status"
    /\ Len(attempts) = 2
    /\ Len(listing) > Len(attempts)
    /\ registry[tag] = {attempts[1].args.file}

\* C4: is_image_exists returns Ok(true) exactly when the inspection process
\* was launched and ended successfully, Ok(false) for every other way the
\* process ended, and an error when the process could not be launched.
C4_ImageExistsResult ==
    insp.called =>
        /\ insp.res = "Ok(true)" <=>
               (insp.launched /\ insp.waited /\ insp.status = 0)
        /\ (insp.launched /\ insp.waited /\ insp.status # 0) =>
               insp.res = "Ok(false)"
        /\ ~insp.launched => insp.res = "Err"

\* the process could not be launched, and the call returned an error
C4_Witness ==
    /\ insp.called
    /\ ~insp.launched
    /\ insp.res = "Err"

\* C5: get_copy_from_image_command returns no line without directories or
\* without a file-server config, and otherwise three lines per directory,
\* in the order of the directories: tar, curl, rm, each under the same test
\* of the directory's normalized path.
C5_ThreeLinesPerDir ==
    fromCmds.called =>
        LET dirs == UnwrapOrDefault(cacheDirs)
            n    == Len(dirs)
            out  == fromCmds.out
            Guard(i) == GuardOpen \o SanitizeDir(dirs[i]) \o GuardClose
        IN  IF ~cacheDirs.some \/ n = 0 \/ ~serverCfg.some
            THEN out = <<>>
            ELSE /\ Len(out) = 3 * n
                 /\ \A i \in 1..n :
                      /\ StartsWith(out[3 * (i - 1) + 1], Guard(i) \o <<"t","a","r"," ">>)
                      /\ StartsWith(out[3 * (i - 1) + 2], Guard(i) \o <<"c","u","r","l"," ">>)
                      /\ StartsWith(out[3 * (i - 1) + 3], Guard(i) \o <<"r","m"," ">>)

\* the generator ran on two directories and a config
C5_Witness ==
    /\ fromCmds.called
    /\ Len(fromCmds.out) = 6
    /\ cacheDirs.val[1] # cacheDirs.val[2]

\* The source path the COPY instruction is to carry, read off the characters
\* of the normalized path p: every character other than '/' is kept, a '?'
\* follows the last character of each run of such characters, and a '/'
\* follows that '?' when another run comes later.
ExpectedSourceAt(p, i) ==
    IF p[i] = "/" THEN <<>>
    ELSE <<p[i]>> \o
         (IF i = Len(p) \/ p[i + 1] = "/"
          THEN <<"?">> \o (IF \E j \in (i + 1)..Len(p) : p[j] # "/"
                           THEN <<"/">> ELSE <<>>)
          ELSE <<>>)

ExpectedSource(p) == Flatten([i \in 1..Len(p) |-> ExpectedSourceAt(p, i)])

\* C6: get_copy_to_image_command returns no line without directories, and
\* otherwise one COPY --from=<imageRef> line per directory, in order, with
\* the normalized path as destination and, as source, its non-empty
\* segments, each followed by one '?', joined by '/'.
C6_OneCopyPerDir ==
    toCmds.called =>
        LET dirs == UnwrapOrDefault(cacheDirs)
            out  == toCmds.out
        IN  /\ Len(out) = Len(dirs)
            /\ \A i \in 1..Len(dirs) :
                 out[i] = <<"C","O","P","Y"," ","-","-","f","r","o","m","=">> \o imageRef \o <<" ">>
                            \o ExpectedSource(SanitizeDir(dirs[i])) \o <<" ">>
                            \o SanitizeDir(dirs[i])

\* the generator ran on a path with an empty segment
C6_Witness ==
    /\ toCmds.called
    /\ Len(toCmds.out) >= 1
    /\ \E i \in 1..Len(cacheDirs.val) :
         \E j \in 1..(Len(cacheDirs.val[i]) - 1) :
            cacheDirs.val[i][j] = "/" /\ cacheDirs.val[i][j + 1] = "/"

\* the paths the generated lines name for the i-th directory all begin
\* with /root
NamesRootPath(i) ==
    /\ toCmds.called =>
         StartsWith(LastToken(toCmds.out[i]), <<"/","r","o","o","t">>)
    /\ (fromCmds.called /\ fromCmds.out # <<>>) =>
         \A k \in 1..3 :
            LET line == fromCmds.out[3 * (i - 1) + k] IN
            /\ StartsWith(GuardPath(line), <<"/","r","o","o","t">>)
            /\ Verb(line) \in {"tar", "rm"} =>
                   StartsWith(Operand(line), <<"/","r","o","o","t">>)

\* C7 as stated: for every directory spec that contains '~', the path both
\* generators use begins with /root.
C7_TildeAnywhere ==
    \A i \in 1..Len(UnwrapOrDefault(cacheDirs)) :
        Contains(cacheDirs.val[i], "~") => NamesRootPath(i)

\* C7 amended: for every directory spec that begins with '~', the path both
\* generators use begins with /root.
C7_LeadingTilde ==
    \A i \in 1..Len(UnwrapOrDefault(cacheDirs)) :
        StartsWith(cacheDirs.val[i], <<"~">>) => NamesRootPath(i)

\* both generators ran on a spec that begins with '~'
C7_Witness ==
    /\ toCmds.called /\ fromCmds.called
    /\ fromCmds.out # <<>>
    /\ cacheDirs.val[1] = <<"~","/",".","c","a","c","h","e">>

\* C8: a directory is removed by its rm line only after its tar line has
\* archived it successfully.
C8_RemovedOnlyAfterArchive ==
    \A r \in shRmAfter : r[2] = "ok"

\* C9: every import of a create_image call is given the call's tag, and
\* after a successful call on two or more files the tag names an image
\* made of the last file imported alone.
C9_LastImportWins ==
    (pc = "done" /\ imgRes = "ok" /\ Len(attempts) >= 2) =>
        /\ \A i \in 1..Len(attempts) : attempts[i].args.tag = tag
        /\ registry[tag] = {attempts[Len(attempts)].args.file}
        /\ registry[tag] # Range(AttemptFiles)

\* create_image returned success after two imports
C9_Witness ==
    /\ pc = "done" /\ imgRes = "ok"
    /\ Len(attempts) >= 2

\* C10: at most one import process is outstanding; the uploads directory
\* is not changed by the call; a successful call has imported every
\* enumerated file exactly once, with the call's tag, and with an empty
\* uploads directory it has imported nothing and left the daemon as it was.
C10_OneImportPerFile ==
    /\ outstanding <= 1
    /\ pc # "idle" => fs.uploadsFiles = preUploads
    /\ (pc = "done" /\ imgRes = "ok") =>
         /\ AttemptFiles = listing
         /\ Range(listing) = fs.uploadsFiles
         /\ Len(listing) = Cardinality(fs.uploadsFiles)
         /\ \A i \in 1..Len(attempts) :
              /\ attempts[i].args.tag = tag
              /\ attempts[i].outcome = "exit_ok"
         /\ listing = <<>> => (attempts = <<>> /\ registry = preReg)

\* create_image returned success on an empty uploads directory while the
\* tag already named an image
C10_Witness ==
    /\ pc = "done" /\ imgRes = "ok"
    /\ listing = <<>>
    /\ registry[tag] # {}

====
